---- MODULE Spec2Model ----
(***************************************************************************)
(* Event registration lifecycle of the LiftupLabs backend.                 *)
(*                                                                         *)
(* One Event document and the registeredEvents mirrors of the users who    *)
(* register for it.  Every HTTP request is a task made of awaited database *)
(* operations; each database operation (with the synchronous code that     *)
(* runs after the previous await and issues it) is one atomic step, and    *)
(* steps of different requests interleave freely.                          *)
(*                                                                         *)
(* Document.save() sends the delta of the modified paths (Mongoose 7):     *)
(*   - array push          -> $push, __v incremented, no version check     *)
(*   - array re-assignment -> $set of the array, checked against __v and   *)
(*                            __v incremented                              *)
(*   - field of an array element -> $set by position, checked against __v  *)
(*   - scalar field        -> $set, no version check                       *)
(* A failed version check raises VersionError, which the handlers answer   *)
(* with 500.                                                               *)
(***************************************************************************)
EXTENDS Integers, Sequences, FiniteSets, Bags, TLC

\* ---- bounds -------------------------------------------------------------
MaxTime     == 2    \* the clock runs 0..MaxTime
MaxVersion  == 2    \* versioned writes (__v) of the event document
MaxViews    == 1    \* single-event reads that are counted
MaxDownloads == 1   \* downloads of the note that are counted

InitDeadline == MaxTime - 1

\* ---- identities ---------------------------------------------------------
Clients     == {"c1", "c2"}                  \* connections, one request each
EventId     == "E"
AbsentId    == "f"                           \* 24 hex digits that name no record
MalformedId == "zz"                          \* not an ObjectId string
LookupIds   == {AbsentId, MalformedId}       \* ids that find nothing
Organizer   == "org"
Admin       == "adm"
Registrants == {"u1", "u2"}                  \* users that (un)register
Viewers     == {"anon", "u1", Organizer, Admin}
Callers     == {Organizer, "u1"}             \* callers of organizer-only routes
StatusCallers == {Organizer, "u1", Admin}    \* callers of the status route
RawUserIds  == {"U1", "u2"}                  \* userId strings of a request body
TeamNames   == {"alpha"}
NewTeamNames == {"beta"}                     \* team names of an organizer edit
Statuses    == {"registered", "confirmed", "attended", "cancelled"}
StatusInputs == {"confirmed", "bogus"}       \* status values of a request body
Deadlines   == {MaxTime}                     \* deadlines of an organizer edit
Counts      == {0, -1}                       \* counter values of an organizer edit
Capacities  == {0, 1, 2}                     \* maxParticipants values
ParticipantIds == 1 .. MaxVersion            \* participantId route parameters
NoteId      == "N"
NoteIds     == {NoteId, AbsentId}            \* id route parameters of the notes routes
Raters      == {"u1", "u2", "u3"}            \* authenticated callers of the rate route
RatingInputs == {4, 5, 6}                    \* rating values of a request body
NoteAuthor  == "u1"                          \* author_id of the note
NoteCallers == {NoteAuthor, "u2"}            \* callers of the notes routes
Savers      == {"u2"}                        \* callers of save and unsave
Titles      == {"edited"}                    \* title values of an update body
AccountEmail == "a@liftup.test"              \* the email that registers
UnknownEmail == "b@liftup.test"              \* a well-formed email with no account
Emails      == {AccountEmail, UnknownEmail}
Passwords   == {"secret0"}                   \* password of the register body
NewPasswords == {"secret1"}                  \* newPassword of the reset body
VerificationLife == 24                       \* VERIFICATION_TOKEN_EXPIRE, in hours
ResetLife   == 1                             \* life of a reset token, in hours
LoginLife   == 168                           \* JWT_EXPIRE, in hours
NoToken     == [type |-> "undefined", email |-> "none", iat |-> 0, exp |-> 0]
BadToken    == [type |-> "malformed", email |-> "none", iat |-> 0, exp |-> 0]
NoAccount   ==
    [exists |-> FALSE, isActive |-> FALSE, isEmailVerified |-> FALSE,
     emailVerificationToken |-> NoToken, passwordResetToken |-> NoToken,
     passwordResetExpires |-> 0, password |-> "none"]

\* ---- messages -----------------------------------------------------------
MsgDeadline      == "Registration deadline has passed"
MsgAlready       == "Already registered"
MsgNotRegistered == "You are not registered for this event"
MsgAdminAlready  == "User is already registered for this event"
MsgRegistered    == "Successfully registered for the event"
MsgUnregistered  == "Successfully unregistered from the event"
MsgAdminOk       == "User registered for event successfully"
MsgRegError      == "Server error while registering for event"
MsgUnregError    == "Server error while unregistering from event"
MsgAdminError    == "Server error while registering user for event"
MsgInvalidStatus == "Invalid status. Must be one of: registered, confirmed, attended, cancelled"
MsgStatusDenied  == "Access denied. Only event organizer can update participant status."
MsgNoParticipant == "Participant not found"
MsgStatusOk      == "Participant status updated successfully"
MsgStatusError   == "Server error while updating participant status"
MsgEditDenied    == "Access denied. Only event organizer can update this event."
MsgEditOk        == "Event updated successfully"
MsgEditError     == "Server error while updating event"
MsgGetError      == "Server error while fetching event"
MsgEventNotFound == "Event not found"
MsgUserNotFound  == "User not found"
MsgListError     == "Server error while fetching participants"
MsgValidation    == "Validation failed"
MsgNoteNotFound  == "Note not found"
MsgRated         == "Rating submitted successfully"
MsgNoteUpdateDenied == "Not authorized to update this note"
MsgNoteUpdated   == "Note updated successfully"
MsgNoteDeleteDenied == "Not authorized to delete this note"
MsgNoteDeleted   == "Note deleted successfully"
MsgNoteAlreadySaved == "Note already saved"
MsgNoteSaved     == "Note saved successfully"
MsgNoteUnsaved   == "Note removed from saved"
MsgRateError     == "Server error while rating note"
MsgUserExists    == "User already exists with this email"
MsgSignupError   == "Server error during registration"
MsgSignedUp      == "User registered successfully. Please check your email to verify your account."
MsgBadVerification == "Invalid or expired verification token"
MsgVerifyNotFound == "Invalid verification token or user not found"
MsgAlreadyVerified == "Email is already verified"
MsgVerified      == "Email verified successfully! Welcome to LiftupLabs."
MsgNoSuchEmail   == "User not found with this email"
MsgVerificationSent == "Verification email sent successfully. Please check your inbox."
MsgVerificationNotSent == "Failed to send verification email. Please try again later."
MsgIfAccountExists == "If an account exists with this email, you will receive a password reset link shortly."
MsgResetSent     == "Password reset email sent successfully. Please check your inbox."
MsgResetNotSent  == "Failed to send password reset email. Please try again later."
MsgBadReset      == "Invalid or expired reset token"
MsgResetDone     == "Password reset successfully. You can now log in with your new password."
MsgBadCredentials == "Invalid email or password"
MsgDeactivated   == "Account is deactivated. Please contact support."
MsgNotVerified   == "Please verify your email address before logging in."
MsgLoggedIn      == "Login successful"
MsgStatusSet(isActive) ==
    IF isActive THEN "User activated successfully" ELSE "User deactivated successfully"
MsgNone          == ""

VARIABLES event,     \* the stored Event document
    users,      \* user id -> stored registeredEvents list
    now,        \* the clock read by new Date()
    reqs,       \* bag of requests in flight, each with its loaded document
    out,        \* the HTTP response sent by the step just taken, if any
    noteRatings, \* rows of the note_ratings table: one per (note, user)
    note,       \* the notes row; its rating is kept in tenths
    account,    \* the stored User document of the one email that registers
    inbox       \* the tokens delivered by email to the holder of that email

vars == <<event, users, now, reqs, out, noteRatings, note, account, inbox>>

authVars == <<account, inbox>>

noteVars == <<noteRatings, note>>

\* ---- ObjectId conversions ----------------------------------------------
\* A 24-digit hex string casts to an ObjectId whatever the case of its
\* digits; ObjectId.toString() always prints lower case.
castObjectId(raw) ==
    CASE raw = "U1" -> "u1"
      [] raw = "U2" -> "u2"
      [] OTHER -> raw

toString(oid) == oid

\* Model.findById(id): the document, null, or a CastError thrown by the cast
\* of the id
findById(id, stored) ==
    CASE id = MalformedId -> "CastError"
      [] id \in stored -> "found"
      [] OTHER -> "null"

\* ---- Event methods (models/Event.js) ------------------------------------
\* mutant: "is anybody registered" instead of "is this user registered"
isParticipantAny(doc, idString) == doc.participants # <<>>

isParticipant(doc, idString) ==
    \E i \in DOMAIN doc.participants : toString(doc.participants[i].user) = idString

\* mutant: the duplicate rule is dropped
canUserRegisterNoDuplicateRule(doc, userId, t) ==
    IF t > doc.registration.deadline
    THEN [canRegister |-> FALSE, reason |-> "Registration deadline has passed"]
    ELSE [canRegister |-> TRUE, reason |-> ""]

\* mutant: the duplicate rule is evaluated before the deadline rule
canUserRegisterDuplicateFirst(doc, userId, t) ==
    IF \E i \in DOMAIN doc.participants : doc.participants[i].user = userId
    THEN [canRegister |-> FALSE, reason |-> "Already registered"]
    ELSE IF t > doc.registration.deadline
         THEN [canRegister |-> FALSE, reason |-> "Registration deadline has passed"]
         ELSE [canRegister |-> TRUE, reason |-> ""]

\* mutant: registration closes at the deadline instant
canUserRegisterClosedAtDeadline(doc, userId, t) ==
    IF t >= doc.registration.deadline
    THEN [canRegister |-> FALSE, reason |-> "Registration deadline has passed"]
    ELSE IF \E i \in DOMAIN doc.participants : doc.participants[i].user = userId
         THEN [canRegister |-> FALSE, reason |-> "Already registered"]
         ELSE [canRegister |-> TRUE, reason |-> ""]

\* mutant: a full event refuses registration
canUserRegisterWithCapacity(doc, userId, t) ==
    IF t > doc.registration.deadline
    THEN [canRegister |-> FALSE, reason |-> "Registration deadline has passed"]
    ELSE IF doc.registration.currentParticipants >= doc.registration.maxParticipants
         THEN [canRegister |-> FALSE, reason |-> "Event is full"]
         ELSE IF \E i \in DOMAIN doc.participants : doc.participants[i].user = userId
              THEN [canRegister |-> FALSE, reason |-> "Already registered"]
              ELSE [canRegister |-> TRUE, reason |-> ""]

canUserRegister(doc, userId, t) ==
    IF t > doc.registration.deadline
    THEN [canRegister |-> FALSE, reason |-> MsgDeadline]
    ELSE IF isParticipant(doc, toString(userId))
         THEN [canRegister |-> FALSE, reason |-> MsgAlready]
         ELSE [canRegister |-> TRUE, reason |-> MsgNone]

registrationStatus(doc, t) ==
    IF t > doc.registration.deadline THEN "closed" ELSE "open"

\* the _id a pushed subdocument receives: never issued before
newObjectId(db) == db.v + 1

newParticipant(userId, data, pid) ==
    [id |-> pid, user |-> castObjectId(userId), teamName |-> data,
     status |-> "registered"]

\* the in-memory effect of registerUser, before save()
registerUser(doc, userId, data, pid) ==
    [doc EXCEPT !.participants = Append(@, newParticipant(userId, data, pid)),
                !.registration.currentParticipants = @ + 1]

Max(a, b) == IF a > b THEN a ELSE b

\* the in-memory effect of unregisterUser, before save()
unregisterUser(doc, userId) ==
    LET keep(p) == toString(p.user) # toString(userId)
    IN [doc EXCEPT !.participants = SelectSeq(@, keep),
                   !.registration.currentParticipants = Max(0, @ - 1)]

\* ---- Document.save() deltas ---------------------------------------------
\* mutant: the entry is added only when the stored list has none for the user
savePushIfAbsent(db, local) ==
    LET e == local.participants[Len(local.participants)]
    IN IF \E i \in DOMAIN db.participants : db.participants[i].user = e.user
       THEN [db EXCEPT !.v = @ + 1]
       ELSE [db EXCEPT !.participants = Append(@, e),
                       !.registration.currentParticipants =
                            local.registration.currentParticipants,
                       !.v = @ + 1]

\* save() after registerUser: $push of the new entry, $set of the counter
savePush(db, local) ==
    [db EXCEPT !.participants = Append(@, local.participants[Len(local.participants)]),
               !.registration.currentParticipants = local.registration.currentParticipants,
               !.v = @ + 1]

\* mutant: a rejected save() leaves the pushed entry behind
saveFailedPartial(db, local) ==
    [db EXCEPT !.participants = Append(@, local.participants[Len(local.participants)])]

\* a rejected save(): the single updateOne applies nothing
saveFailed(db, local) == db

\* save() after unregisterUser: $set of the whole array (version checked),
\* $set of the counter when its value changed
versionMatches(db, local) == db.v = local.v

saveArray(db, loaded, local) ==
    [db EXCEPT !.participants = local.participants,
               !.registration.currentParticipants =
                    IF local.registration.currentParticipants
                         # loaded.registration.currentParticipants
                    THEN local.registration.currentParticipants ELSE @,
               !.v = @ + 1]

\* save() after event.views += 1
saveViews(db, local) == [db EXCEPT !.views = local.views]

\* ---- User updates -------------------------------------------------------
pushRegistered(list, eid, st) == Append(list, [event |-> eid, status |-> st])

pullRegistered(list, eid) ==
    LET keep(e) == e.event # eid IN SelectSeq(list, keep)

hasRegistered(list, eid) == \E i \in DOMAIN list : list[i].event = eid

\* ---- status update and organizer edit ----------------------------------
\* mutant: every status value is accepted
isValidStatusAny(st) == TRUE

\* ['registered', 'confirmed', 'attended', 'cancelled'].includes(status)
isValidStatus(st) == st \in Statuses

\* mutant: every authenticated caller passes the organizer check
isEventOrganizerAnyCaller(caller) == TRUE

\* event.organizer.user.toString() === req.user.id.toString()
isEventOrganizer(caller) == toString(Organizer) = toString(caller)

\* event.participants.id(participantId): position of the entry, 0 if none
\* (an id that does not cast matches no entry)
participantIndex(doc, pid) ==
    IF \E i \in DOMAIN doc.participants : doc.participants[i].id = pid
    THEN CHOOSE i \in DOMAIN doc.participants : doc.participants[i].id = pid
    ELSE 0

\* save() after participant.status = status: nothing is sent when the value
\* is the one loaded; otherwise $set of the element's field by position
statusModified(doc, i, st) == doc.participants[i].status # st

saveStatus(db, i, st) == [db EXCEPT !.participants[i].status = st]

\* User.updateOne with the positional operator: first matching element
setRegisteredStatus(list, eid, st) ==
    IF hasRegistered(list, eid)
    THEN LET i == CHOOSE k \in DOMAIN list :
                    /\ list[k].event = eid
                    /\ \A j \in 1 .. (k - 1) : list[j].event # eid
         IN [list EXCEPT ![i].status = st]
    ELSE list

\* Event.findByIdAndUpdate(id, req.body) with a one-key body; the key
\* participants.$[].teamName addresses the field of every array element
applyBody(db, key, val, team) ==
    CASE key = "registration.deadline" ->
            [db EXCEPT !.registration.deadline = val]
      [] key = "registration.currentParticipants" ->
            [db EXCEPT !.registration.currentParticipants = val]
      [] key = "participants.$[].teamName" ->
            [db EXCEPT !.participants =
                [i \in DOMAIN @ |-> [@[i] EXCEPT !.teamName = team]]]
      [] OTHER -> db

\* ---- GET /:id serialisation ---------------------------------------------
isOrganizer(viewer) == viewer # "anon" /\ toString(Organizer) = toString(viewer)
isAdmin(viewer) == viewer # "anon" /\ viewer = Admin

toObject(doc) == [k \in DOMAIN doc |-> doc[k]]

\* mutant: the count is added but the list is not deleted
presentKeepsList(doc, viewer) ==
    LET eventObj == toObject(doc)
    IN IF ~isOrganizer(viewer) /\ ~isAdmin(viewer)
       THEN [k \in DOMAIN eventObj \cup {"participantCount"} |->
                IF k = "participantCount" THEN Len(eventObj.participants)
                ELSE eventObj[k]]
       ELSE eventObj

present(doc, viewer) ==
    LET eventObj == toObject(doc)
    IN IF ~isOrganizer(viewer) /\ ~isAdmin(viewer)
       THEN [k \in (DOMAIN eventObj \ {"participants"}) \cup {"participantCount"} |->
                IF k = "participantCount" THEN Len(eventObj.participants)
                ELSE eventObj[k]]
       ELSE eventObj

\* ---- requests and responses ---------------------------------------------
BlankDoc ==
    [registration |-> [deadline |-> 0, maxParticipants |-> 0, currentParticipants |-> 0],
     participants |-> <<>>, views |-> 0, v |-> 0]

Request(kind, pc, user, uid, doc) ==
    [kind |-> kind, pc |-> pc, user |-> user, uid |-> uid, team |-> "none",
     pid |-> 0, status |-> "none", key |-> "none", val |-> 0, doc |-> doc,
     rows |-> <<>>, token |-> NoToken, password |-> "none", saved_by |-> <<>>]

NoBody == [none |-> TRUE]

Response(op, code, msg) ==
    [op |-> op, code |-> code, msg |-> msg, viewer |-> "none", readLen |-> 0,
     body |-> NoBody]

NoResponse == Response("none", 0, MsgNone)

InFlight == BagToSet(reqs)
CanStart == BagCardinality(reqs) < Cardinality(Clients)
Add(r)  == reqs (+) SetToBag({r})
Del(r)  == reqs (-) SetToBag({r})
Move(r, q) == (reqs (-) SetToBag({r})) (+) SetToBag({q})
After(r, pc) == [r EXCEPT !.pc = pc, !.doc = BlankDoc]

\* ---- initial state ------------------------------------------------------
Init ==
    /\ event = [registration |-> [deadline |-> InitDeadline, maxParticipants |-> 1,
                                  currentParticipants |-> 0],
                participants |-> <<>>, views |-> 0, v |-> 0]
    /\ users = [u \in Registrants |-> <<>>]
    /\ now = 0
    /\ reqs = EmptyBag
    /\ out = NoResponse
    /\ noteRatings = <<>>
    /\ note = [rating |-> 0, ratingCount |-> 0, is_active |-> TRUE, title |-> "draft",
               saved_by |-> <<>>, downloads |-> 0, author_id |-> NoteAuthor]
    /\ account = NoAccount
    /\ inbox = {}

\* ---- the clock ----------------------------------------------------------
Tick ==
    /\ now < MaxTime
    /\ now' = now + 1
    /\ out' = NoResponse
    /\ UNCHANGED <<event, users, reqs, noteVars, authVars>>

\* ---- POST /:id/register -------------------------------------------------
\* Event.findById
RegisterFind(u, team) ==
    /\ CanStart
    /\ reqs' = Add([Request("register", "check", u, u, event) EXCEPT !.team = team])
    /\ out' = NoResponse
    /\ UNCHANGED <<event, users, now, noteVars, authVars>>

\* canUserRegister refuses: 400 with its reason
RegisterReject(r) ==
    /\ r.kind = "register" /\ r.pc = "check"
    /\ ~canUserRegister(r.doc, r.user, now).canRegister
    /\ reqs' = Del(r)
    /\ out' = Response("register", 400, canUserRegister(r.doc, r.user, now).reason)
    /\ UNCHANGED <<event, users, now, noteVars, authVars>>

\* canUserRegister allows: registerUser and its save()
RegisterSave(r) ==
    /\ r.kind = "register" /\ r.pc = "check"
    /\ canUserRegister(r.doc, r.user, now).canRegister
    /\ event.v < MaxVersion
    /\ event' = savePush(event, registerUser(r.doc, r.user, r.team, newObjectId(event)))
    /\ reqs' = Move(r, After(r, "mirror"))
    /\ out' = NoResponse
    /\ UNCHANGED <<users, now, noteVars, authVars>>

\* ... or the save() fails: 500
RegisterSaveFail(r) ==
    /\ r.kind = "register" /\ r.pc = "check"
    /\ canUserRegister(r.doc, r.user, now).canRegister
    /\ event' = saveFailed(event, registerUser(r.doc, r.user, r.team, newObjectId(event)))
    /\ reqs' = Del(r)
    /\ out' = Response("register", 500, MsgRegError)
    /\ UNCHANGED <<users, now, noteVars, authVars>>

\* User.findByIdAndUpdate $push, then the 200 response; 500 if it fails
RegisterMirror(r) ==
    /\ r.kind = "register" /\ r.pc = "mirror"
    /\ reqs' = Del(r)
    /\ \/ /\ users' = [users EXCEPT ![r.user] = pushRegistered(@, EventId, "registered")]
          /\ out' = Response("register", 200, MsgRegistered)
       \/ /\ out' = Response("register", 500, MsgRegError)
          /\ UNCHANGED users
    /\ UNCHANGED <<event, now, noteVars, authVars>>

\* ---- DELETE /:id/register -----------------------------------------------
\* Event.findById
UnregisterFind(u) ==
    /\ CanStart
    /\ reqs' = Add(Request("unregister", "check", u, u, event))
    /\ out' = NoResponse
    /\ UNCHANGED <<event, users, now, noteVars, authVars>>

\* the caller is not in the loaded participants: 400
UnregisterReject(r) ==
    /\ r.kind = "unregister" /\ r.pc = "check"
    /\ ~isParticipant(r.doc, toString(r.user))
    /\ reqs' = Del(r)
    /\ out' = Response("unregister", 400, MsgNotRegistered)
    /\ UNCHANGED <<event, users, now, noteVars, authVars>>

\* unregisterUser and its save()
UnregisterSave(r) ==
    /\ r.kind = "unregister" /\ r.pc = "check"
    /\ isParticipant(r.doc, toString(r.user))
    /\ event.v < MaxVersion
    /\ versionMatches(event, r.doc)
    /\ event' = saveArray(event, r.doc, unregisterUser(r.doc, r.user))
    /\ reqs' = Move(r, After(r, "mirror"))
    /\ out' = NoResponse
    /\ UNCHANGED <<users, now, noteVars, authVars>>

\* ... or the save() fails (VersionError included): 500
UnregisterSaveFail(r) ==
    /\ r.kind = "unregister" /\ r.pc = "check"
    /\ isParticipant(r.doc, toString(r.user))
    /\ reqs' = Del(r)
    /\ out' = Response("unregister", 500, MsgUnregError)
    /\ UNCHANGED <<event, users, now, noteVars, authVars>>

\* User.findByIdAndUpdate $pull, then the 200 response; 500 if it fails
UnregisterMirror(r) ==
    /\ r.kind = "unregister" /\ r.pc = "mirror"
    /\ reqs' = Del(r)
    /\ \/ /\ users' = [users EXCEPT ![r.user] = pullRegistered(@, EventId)]
          /\ out' = Response("unregister", 200, MsgUnregistered)
       \/ /\ out' = Response("unregister", 500, MsgUnregError)
          /\ UNCHANGED users
    /\ UNCHANGED <<event, now, noteVars, authVars>>

\* ---- POST /:id/admin-register (caller has the admin role) ---------------
\* the duplicate check compares each participant's printed id with the
\* userId string of the body
\* mutant: the admin path refuses after the deadline as well
isAlreadyRegisteredOrClosed(doc, userId) ==
    isParticipant(doc, userId) \/ now > doc.registration.deadline

isAlreadyRegistered(doc, userId) == isParticipant(doc, userId)

\* Event.findById and User.findById(userId)
AdminFind(raw) ==
    /\ CanStart
    /\ castObjectId(raw) \in DOMAIN users
    /\ reqs' = Add(Request("admin-register", "check", Admin, raw, event))
    /\ out' = NoResponse
    /\ UNCHANGED <<event, users, now, noteVars, authVars>>

AdminReject(r) ==
    /\ r.kind = "admin-register" /\ r.pc = "check"
    /\ isAlreadyRegistered(r.doc, r.uid)
    /\ reqs' = Del(r)
    /\ out' = Response("admin-register", 400, MsgAdminAlready)
    /\ UNCHANGED <<event, users, now, noteVars, authVars>>

\* registerUser(userId) without registration data, and its save()
AdminSave(r) ==
    /\ r.kind = "admin-register" /\ r.pc = "check"
    /\ ~isAlreadyRegistered(r.doc, r.uid)
    /\ event.v < MaxVersion
    /\ event' = savePush(event, registerUser(r.doc, r.uid, "none", newObjectId(event)))
    /\ reqs' = Move(r, After(r, "mirror"))
    /\ out' = NoResponse
    /\ UNCHANGED <<users, now, noteVars, authVars>>

AdminSaveFail(r) ==
    /\ r.kind = "admin-register" /\ r.pc = "check"
    /\ ~isAlreadyRegistered(r.doc, r.uid)
    /\ reqs' = Del(r)
    /\ out' = Response("admin-register", 500, MsgAdminError)
    /\ UNCHANGED <<event, users, now, noteVars, authVars>>

\* User.findByIdAndUpdate(userId) $push with status confirmed
AdminMirror(r) ==
    /\ r.kind = "admin-register" /\ r.pc = "mirror"
    /\ reqs' = Del(r)
    /\ \/ /\ users' = [users EXCEPT ![castObjectId(r.uid)] =
                                        pushRegistered(@, EventId, "confirmed")]
          /\ out' = Response("admin-register", 200, MsgAdminOk)
       \/ /\ out' = Response("admin-register", 500, MsgAdminError)
          /\ UNCHANGED users
    /\ UNCHANGED <<event, now, noteVars, authVars>>

\* ---- PUT /:id/participants/:participantId/status ------------------------
\* a status outside the enum is refused before any database access
StatusInvalid(caller, pid, st) ==
    /\ ~isValidStatus(st)
    /\ out' = Response("status", 400, MsgInvalidStatus)
    /\ UNCHANGED <<event, users, now, reqs, noteVars, authVars>>

\* Event.findById
StatusFind(caller, pid, st) ==
    /\ CanStart
    /\ isValidStatus(st)
    /\ reqs' = Add([Request("status", "check", caller, "none", event)
                        EXCEPT !.pid = pid, !.status = st])
    /\ out' = NoResponse
    /\ UNCHANGED <<event, users, now, noteVars, authVars>>

\* not the organizer: 403; no such participant: 404
StatusReject(r) ==
    /\ r.kind = "status" /\ r.pc = "check"
    /\ \/ /\ ~isEventOrganizer(r.user)
          /\ out' = Response("status", 403, MsgStatusDenied)
       \/ /\ isEventOrganizer(r.user)
          /\ participantIndex(r.doc, r.pid) = 0
          /\ out' = Response("status", 404, MsgNoParticipant)
    /\ reqs' = Del(r)
    /\ UNCHANGED <<event, users, now, noteVars, authVars>>

\* participant.status = status and event.save()
StatusSave(r) ==
    /\ r.kind = "status" /\ r.pc = "check"
    /\ isEventOrganizer(r.user)
    /\ participantIndex(r.doc, r.pid) # 0
    /\ LET i == participantIndex(r.doc, r.pid)
       IN /\ IF statusModified(r.doc, i, r.status)
             THEN /\ versionMatches(event, r.doc)
                  /\ event' = saveStatus(event, i, r.status)
             ELSE UNCHANGED event
          /\ reqs' = Move(r, [After(r, "mirror") EXCEPT !.uid = r.doc.participants[i].user])
    /\ out' = NoResponse
    /\ UNCHANGED <<users, now, noteVars, authVars>>

StatusSaveFail(r) ==
    /\ r.kind = "status" /\ r.pc = "check"
    /\ isEventOrganizer(r.user)
    /\ participantIndex(r.doc, r.pid) # 0
    /\ statusModified(r.doc, participantIndex(r.doc, r.pid), r.status)
    /\ reqs' = Del(r)
    /\ out' = Response("status", 500, MsgStatusError)
    /\ UNCHANGED <<event, users, now, noteVars, authVars>>

\* User.updateOne on the participant's user, then the 200 response
StatusMirror(r) ==
    /\ r.kind = "status" /\ r.pc = "mirror"
    /\ reqs' = Del(r)
    /\ \/ /\ users' = [users EXCEPT ![r.uid] = setRegisteredStatus(@, EventId, r.status)]
          /\ out' = Response("status", 200, MsgStatusOk)
       \/ /\ out' = Response("status", 500, MsgStatusError)
          /\ UNCHANGED users
    /\ UNCHANGED <<event, now, noteVars, authVars>>

\* ---- PUT /:id (organizer edit) ------------------------------------------
\* Event.findById
EditFind(caller, key, val, team) ==
    /\ CanStart
    /\ reqs' = Add([Request("edit", "check", caller, "none", BlankDoc)
                        EXCEPT !.key = key, !.val = val, !.team = team])
    /\ out' = NoResponse
    /\ UNCHANGED <<event, users, now, noteVars, authVars>>

EditReject(r) ==
    /\ r.kind = "edit" /\ r.pc = "check"
    /\ toString(Organizer) # toString(r.user)
    /\ reqs' = Del(r)
    /\ out' = Response("edit", 403, MsgEditDenied)
    /\ UNCHANGED <<event, users, now, noteVars, authVars>>

\* Event.findByIdAndUpdate(id, req.body); 500 if it fails
EditApply(r) ==
    /\ r.kind = "edit" /\ r.pc = "check"
    /\ toString(Organizer) = toString(r.user)
    /\ reqs' = Del(r)
    /\ \/ /\ event' = applyBody(event, r.key, r.val, r.team)
          /\ out' = Response("edit", 200, MsgEditOk)
       \/ /\ out' = Response("edit", 500, MsgEditError)
          /\ UNCHANGED event
    /\ UNCHANGED <<users, now, noteVars, authVars>>

\* ---- GET /:id -----------------------------------------------------------
\* Event.findById
GetFind(viewer) ==
    /\ CanStart
    /\ event.views < MaxViews
    /\ reqs' = Add(Request("get", "check", viewer, "none", event))
    /\ out' = NoResponse
    /\ UNCHANGED <<event, users, now, noteVars, authVars>>

\* event.views += 1, save(), and the serialised event; 500 if save() fails
GetRespond(r) ==
    /\ r.kind = "get" /\ r.pc = "check"
    /\ reqs' = Del(r)
    /\ LET local == [r.doc EXCEPT !.views = @ + 1]
       IN \/ /\ event' = saveViews(event, local)
             /\ out' = [Response("get", 200, MsgNone) EXCEPT
                            !.viewer = r.user,
                            !.readLen = Len(r.doc.participants),
                            !.body = present(local, r.user)]
          \/ /\ out' = Response("get", 500, MsgGetError)
             /\ UNCHANGED event
    /\ UNCHANGED <<users, now, noteVars, authVars>>

\* ---- requests whose id finds nothing ------------------------------------
\* GET /:id: null is answered 404, and so is a CastError in the catch block
GetMissing(viewer, id) ==
    /\ findById(id, {EventId}) # "found"
    /\ out' = Response("get", 404, MsgEventNotFound)
    /\ UNCHANGED <<event, users, now, reqs, noteVars, authVars>>

\* the other routes: null is answered 404, a CastError 500 by the catch block
RegisterMissing(u, id) ==
    /\ findById(id, {EventId}) # "found"
    /\ out' = IF findById(id, {EventId}) = "null"
              THEN Response("register", 404, MsgEventNotFound)
              ELSE Response("register", 500, MsgRegError)
    /\ UNCHANGED <<event, users, now, reqs, noteVars, authVars>>

UnregisterMissing(u, id) ==
    /\ findById(id, {EventId}) # "found"
    /\ out' = IF findById(id, {EventId}) = "null"
              THEN Response("unregister", 404, MsgEventNotFound)
              ELSE Response("unregister", 500, MsgUnregError)
    /\ UNCHANGED <<event, users, now, reqs, noteVars, authVars>>

AdminMissing(raw, id) ==
    /\ findById(id, {EventId}) # "found"
    /\ out' = IF findById(id, {EventId}) = "null"
              THEN Response("admin-register", 404, MsgEventNotFound)
              ELSE Response("admin-register", 500, MsgAdminError)
    /\ UNCHANGED <<event, users, now, reqs, noteVars, authVars>>

\* admin-register of an event that exists: User.findById(userId)
AdminUserMissing(uid) ==
    /\ findById(uid, DOMAIN users) # "found"
    /\ out' = IF findById(uid, DOMAIN users) = "null"
              THEN Response("admin-register", 404, MsgUserNotFound)
              ELSE Response("admin-register", 500, MsgAdminError)
    /\ UNCHANGED <<event, users, now, reqs, noteVars, authVars>>

StatusMissing(caller, id, st) ==
    /\ isValidStatus(st)
    /\ findById(id, {EventId}) # "found"
    /\ out' = IF findById(id, {EventId}) = "null"
              THEN Response("status", 404, MsgEventNotFound)
              ELSE Response("status", 500, MsgStatusError)
    /\ UNCHANGED <<event, users, now, reqs, noteVars, authVars>>

\* GET /:id/participants
ListMissing(caller, id) ==
    /\ findById(id, {EventId}) # "found"
    /\ out' = IF findById(id, {EventId}) = "null"
              THEN Response("participants", 404, MsgEventNotFound)
              ELSE Response("participants", 500, MsgListError)
    /\ UNCHANGED <<event, users, now, reqs, noteVars, authVars>>

Lookup ==
    \/ \E v \in Viewers, id \in LookupIds : GetMissing(v, id)
    \/ \E u \in Registrants, id \in LookupIds : RegisterMissing(u, id)
    \/ \E u \in Registrants, id \in LookupIds : UnregisterMissing(u, id)
    \/ \E raw \in RawUserIds, id \in LookupIds : AdminMissing(raw, id)
    \/ \E uid \in LookupIds : AdminUserMissing(uid)
    \/ \E c \in StatusCallers, id \in LookupIds, st \in StatusInputs : StatusMissing(c, id, st)
    \/ \E c \in Callers, id \in LookupIds : ListMissing(c, id)

\* ---- GET / (listing) and GET /api/users/:id ------------------------------
\* Event.find(filter).lean(): the stored documents, every field included
lean(doc) == [k \in DOMAIN doc |-> doc[k]]

\* the events a user hosts (pushed to hostedEvents when the event is created)
hostedEvents(uid) == IF uid = Organizer THEN <<EventId>> ELSE <<>>

\* populate('hostedEvents', 'title dateTime.start participants')
populateHosted(ids, doc) ==
    [i \in DOMAIN ids |-> [id |-> ids[i], participants |-> doc.participants]]

\* GET /: the page of events; isUserRegistered is added for a signed-in caller
ListEvents(viewer) ==
    /\ out' = [Response("list", 200, MsgNone) EXCEPT
                  !.viewer = viewer,
                  !.readLen = Len(event.participants),
                  !.body = [events |-> <<lean(event)>>]]
    /\ UNCHANGED <<event, users, now, reqs, noteVars, authVars>>

\* GET /api/users/:id by a signed-in caller
GetUser(viewer, uid) ==
    /\ viewer # "anon"
    /\ out' = [Response("user", 200, MsgNone) EXCEPT
                  !.viewer = viewer,
                  !.readLen = Len(event.participants),
                  !.body = [events |-> populateHosted(hostedEvents(uid), event)]]
    /\ UNCHANGED <<event, users, now, reqs, noteVars, authVars>>

Listing ==
    \/ \E v \in Viewers : ListEvents(v)
    \/ \E v \in Viewers, uid \in {Organizer, "u1"} : GetUser(v, uid)

\* ---- POST /api/notes/:id/rate -------------------------------------------
RECURSIVE sumRatings(_)
\* ratings.reduce((sum, r) => sum + r.rating, 0)
sumRatings(rows) ==
    IF rows = <<>> THEN 0 ELSE Head(rows).rating + sumRatings(Tail(rows))

\* Math.round(x * 10) for x = sum / n: the nearest integer, halves upwards;
\* the stored rating is this number of tenths
roundTenths(sum, n) == (20 * sum + n) \div (2 * n)

\* mutant: the row is inserted whether or not the pair has one
insertRating(rows, u, v) == Append(rows, [user |-> u, rating |-> v])

\* upsert({note_id, user_id, rating}, {onConflict: 'note_id,user_id'})
upsertRating(rows, u, v) ==
    IF \E i \in DOMAIN rows : rows[i].user = u
    THEN [i \in DOMAIN rows |-> IF rows[i].user = u THEN [rows[i] EXCEPT !.rating = v]
                                 ELSE rows[i]]
    ELSE Append(rows, [user |-> u, rating |-> v])

\* body('rating').isInt({ min: 1, max: 5 })
isValidRating(v) == v \in 1 .. 5

\* the validation refuses the body: 400
RateInvalid(u, v) ==
    /\ ~isValidRating(v)
    /\ out' = Response("rate", 400, MsgValidation)
    /\ UNCHANGED <<event, users, now, reqs, noteVars, authVars>>

\* no active note has the id: 404
RateMissing(u, v, id) ==
    /\ isValidRating(v)
    /\ id # NoteId \/ ~note.is_active
    /\ out' = Response("rate", 404, MsgNoteNotFound)
    /\ UNCHANGED <<event, users, now, reqs, noteVars, authVars>>

\* select of the note by id
RateFind(u, v, id) ==
    /\ CanStart
    /\ isValidRating(v)
    /\ id = NoteId
    /\ note.is_active
    /\ reqs' = Add([Request("rate", "upsert", u, "none", BlankDoc) EXCEPT !.val = v])
    /\ out' = NoResponse
    /\ UNCHANGED <<event, users, now, noteVars, authVars>>

\* the upsert of the caller's row; its error is thrown: 500
RateUpsert(r) ==
    /\ r.kind = "rate" /\ r.pc = "upsert"
    /\ \/ /\ noteRatings' = upsertRating(noteRatings, r.user, r.val)
          /\ reqs' = Move(r, [r EXCEPT !.pc = "fetch"])
          /\ out' = NoResponse
       \/ /\ reqs' = Del(r)
          /\ out' = Response("rate", 500, MsgRateError)
          /\ UNCHANGED noteRatings
    /\ UNCHANGED <<event, users, now, note, authVars>>

\* select('rating'): the rating column of the rows
ratingColumn(rows) == [i \in DOMAIN rows |-> [rating |-> rows[i].rating]]

\* select of the note's ratings; on its error the update is skipped and the
\* request is answered 200
RateFetch(r) ==
    /\ r.kind = "rate" /\ r.pc = "fetch"
    /\ \/ /\ reqs' = Move(r, [r EXCEPT !.pc = "update", !.rows = ratingColumn(noteRatings)])
          /\ out' = NoResponse
       \/ /\ reqs' = Del(r)
          /\ out' = Response("rate", 200, MsgRated)
    /\ UNCHANGED <<event, users, now, noteVars, authVars>>

\* the rounded mean and the count of a list of ratings
aggregate(rows) ==
    [rating |-> roundTenths(sumRatings(rows), Len(rows)), ratingCount |-> Len(rows)]

\* the rating columns of a notes row
ratingColumns(row) == [rating |-> row.rating, ratingCount |-> row.ratingCount]

\* Array.includes and Array.filter(id => id !== u) on saved_by
includes(list, u) == \E i \in DOMAIN list : list[i] = u

without(list, u) == SelectSeq(list, LAMBDA x : x # u)

\* update of the notes row with the rounded mean and the count, then 200;
\* the result of the update is not looked at
RateUpdate(r) ==
    /\ r.kind = "rate" /\ r.pc = "update"
    /\ reqs' = Del(r)
    /\ out' = Response("rate", 200, MsgRated)
    /\ \/ note' = [note EXCEPT !.rating = aggregate(r.rows).rating,
                               !.ratingCount = aggregate(r.rows).ratingCount]
       \/ UNCHANGED note
    /\ UNCHANGED <<event, users, now, noteRatings, authVars>>

\* rate requests of the given users; a request starts when canStart holds
RateBy(us, canStart) ==
    \/ \E u \in us, v \in RatingInputs : RateInvalid(u, v)
    \/ \E u \in us, v \in RatingInputs, id \in NoteIds : RateMissing(u, v, id)
    \/ \E u \in us, v \in RatingInputs, id \in NoteIds : canStart /\ RateFind(u, v, id)
    \/ \E r \in InFlight : RateUpsert(r)
    \/ \E r \in InFlight : RateFetch(r)
    \/ \E r \in InFlight : RateUpdate(r)

\* ---- the other notes routes (routes/notes.js) ---------------------------
\* .eq('id', id).single(): the row, or an error when no row has the id
selectNote(id) == id = NoteId

\* the rows a list query returns
rowsWhere(cond) == IF cond THEN <<note>> ELSE <<>>

Notes(op, rows) == [Response(op, 200, MsgNone) EXCEPT !.body = [notes |-> rows]]

NoteRequest(kind, user) == Request(kind, "update", user, "none", BlankDoc)

\* GET /: the active notes
NoteList(viewer) ==
    /\ out' = Notes("notes", rowsWhere(note.is_active))
    /\ UNCHANGED <<event, users, now, reqs, noteVars, authVars>>

\* GET /my/saved: the active notes whose saved_by contains the caller
NoteSaved(u) ==
    /\ out' = Notes("saved", rowsWhere(includes(note.saved_by, u) /\ note.is_active))
    /\ UNCHANGED <<event, users, now, reqs, noteVars, authVars>>

\* GET /my/uploaded: the notes whose author is the caller
NoteUploaded(u) ==
    /\ out' = Notes("uploaded", rowsWhere(note.author_id = u))
    /\ UNCHANGED <<event, users, now, reqs, noteVars, authVars>>

\* GET /:id: 404 for no row and for an inactive one
NoteGet(viewer, id) ==
    /\ \/ /\ ~selectNote(id) \/ ~note.is_active
          /\ out' = Response("note", 404, MsgNoteNotFound)
       \/ /\ selectNote(id)
          /\ note.is_active
          /\ out' = [Response("note", 200, MsgNone) EXCEPT !.body = [notes |-> <<note>>]]
    /\ UNCHANGED <<event, users, now, reqs, noteVars, authVars>>

\* PUT /:id: no row: 404; the caller is not the author: 403
NoteUpdateReject(u, id, title) ==
    /\ \/ /\ ~selectNote(id)
          /\ out' = Response("noteUpdate", 404, MsgNoteNotFound)
       \/ /\ selectNote(id)
          /\ note.author_id # u
          /\ out' = Response("noteUpdate", 403, MsgNoteUpdateDenied)
    /\ UNCHANGED <<event, users, now, reqs, noteVars, authVars>>

\* ... the select finds the author's row
NoteUpdateFind(u, id, title) ==
    /\ CanStart
    /\ selectNote(id)
    /\ note.author_id = u
    /\ reqs' = Add([NoteRequest("noteUpdate", u) EXCEPT !.key = title])
    /\ out' = NoResponse
    /\ UNCHANGED <<event, users, now, noteVars, authVars>>

\* ... update(updateData).eq('id', id)
NoteUpdateApply(r) ==
    /\ r.kind = "noteUpdate" /\ r.pc = "update"
    /\ note' = [note EXCEPT !.title = r.key]
    /\ reqs' = Del(r)
    /\ out' = Response("noteUpdate", 200, MsgNoteUpdated)
    /\ UNCHANGED <<event, users, now, noteRatings, authVars>>

\* DELETE /:id: no row: 404; the caller is not the author: 403
NoteDeleteReject(u, id) ==
    /\ \/ /\ ~selectNote(id)
          /\ out' = Response("noteDelete", 404, MsgNoteNotFound)
       \/ /\ selectNote(id)
          /\ note.author_id # u
          /\ out' = Response("noteDelete", 403, MsgNoteDeleteDenied)
    /\ UNCHANGED <<event, users, now, reqs, noteVars, authVars>>

NoteDeleteFind(u, id) ==
    /\ CanStart
    /\ selectNote(id)
    /\ note.author_id = u
    /\ reqs' = Add(NoteRequest("noteDelete", u))
    /\ out' = NoResponse
    /\ UNCHANGED <<event, users, now, noteVars, authVars>>

\* ... update({ is_active: false }).eq('id', id)
NoteDeleteApply(r) ==
    /\ r.kind = "noteDelete" /\ r.pc = "update"
    /\ note' = [note EXCEPT !.is_active = FALSE]
    /\ reqs' = Del(r)
    /\ out' = Response("noteDelete", 200, MsgNoteDeleted)
    /\ UNCHANGED <<event, users, now, noteRatings, authVars>>

\* POST /:id/download: no active row: 404
DownloadMissing(id) ==
    /\ ~selectNote(id) \/ ~note.is_active
    /\ out' = Response("download", 404, MsgNoteNotFound)
    /\ UNCHANGED <<event, users, now, reqs, noteVars, authVars>>

\* ... the select finds the active row
DownloadFind(id) ==
    /\ CanStart
    /\ selectNote(id)
    /\ note.is_active
    /\ note.downloads < MaxDownloads
    /\ reqs' = Add([NoteRequest("download", "none") EXCEPT !.val = note.downloads])
    /\ out' = NoResponse
    /\ UNCHANGED <<event, users, now, noteVars, authVars>>

\* ... update({ downloads: note.downloads + 1 }).eq('id', id), then the file
DownloadApply(r) ==
    /\ r.kind = "download" /\ r.pc = "update"
    /\ note' = [note EXCEPT !.downloads = r.val + 1]
    /\ reqs' = Del(r)
    /\ out' = Response("download", 200, MsgNone)
    /\ UNCHANGED <<event, users, now, noteRatings, authVars>>

\* POST /:id/save: no active row: 404; the caller is in saved_by: 400
SaveReject(u, id) ==
    /\ \/ /\ ~selectNote(id) \/ ~note.is_active
          /\ out' = Response("save", 404, MsgNoteNotFound)
       \/ /\ selectNote(id)
          /\ note.is_active
          /\ includes(note.saved_by, u)
          /\ out' = Response("save", 400, MsgNoteAlreadySaved)
    /\ UNCHANGED <<event, users, now, reqs, noteVars, authVars>>

\* ... the select finds the active row, not saved by the caller
SaveFind(u, id) ==
    /\ CanStart
    /\ selectNote(id)
    /\ note.is_active
    /\ ~includes(note.saved_by, u)
    /\ reqs' = Add([NoteRequest("save", u) EXCEPT !.saved_by = Append(note.saved_by, u)])
    /\ out' = NoResponse
    /\ UNCHANGED <<event, users, now, noteVars, authVars>>

\* ... update({ saved_by: savedBy }).eq('id', id)
SaveApply(r) ==
    /\ r.kind = "save" /\ r.pc = "update"
    /\ note' = [note EXCEPT !.saved_by = r.saved_by]
    /\ reqs' = Del(r)
    /\ out' = Response("save", 200, MsgNoteSaved)
    /\ UNCHANGED <<event, users, now, noteRatings, authVars>>

\* DELETE /:id/save: no row: 404
UnsaveMissing(u, id) ==
    /\ ~selectNote(id)
    /\ out' = Response("unsave", 404, MsgNoteNotFound)
    /\ UNCHANGED <<event, users, now, reqs, noteVars, authVars>>

\* ... the select finds the row
UnsaveFind(u, id) ==
    /\ CanStart
    /\ selectNote(id)
    /\ reqs' = Add([NoteRequest("unsave", u) EXCEPT !.saved_by = without(note.saved_by, u)])
    /\ out' = NoResponse
    /\ UNCHANGED <<event, users, now, noteVars, authVars>>

\* ... update({ saved_by: savedBy }).eq('id', id)
UnsaveApply(r) ==
    /\ r.kind = "unsave" /\ r.pc = "update"
    /\ note' = [note EXCEPT !.saved_by = r.saved_by]
    /\ reqs' = Del(r)
    /\ out' = Response("unsave", 200, MsgNoteUnsaved)
    /\ UNCHANGED <<event, users, now, noteRatings, authVars>>

\* the reads of notes
NoteReads ==
    \/ \E v \in NoteCallers : NoteList(v)
    \/ \E u \in NoteCallers : NoteSaved(u)
    \/ \E u \in NoteCallers : NoteUploaded(u)
    \/ \E v \in NoteCallers, id \in NoteIds : NoteGet(v, id)

\* the writes of the notes row other than rate
NoteWrites ==
    \/ \E u \in NoteCallers, id \in NoteIds, t \in Titles : NoteUpdateReject(u, id, t)
    \/ \E u \in NoteCallers, id \in NoteIds, t \in Titles : NoteUpdateFind(u, id, t)
    \/ \E r \in InFlight : NoteUpdateApply(r)
    \/ \E u \in NoteCallers, id \in NoteIds : NoteDeleteReject(u, id)
    \/ \E u \in NoteCallers, id \in NoteIds : NoteDeleteFind(u, id)
    \/ \E r \in InFlight : NoteDeleteApply(r)
    \/ \E id \in NoteIds : DownloadMissing(id)
    \/ \E id \in NoteIds : DownloadFind(id)
    \/ \E r \in InFlight : DownloadApply(r)
    \/ \E u \in Savers, id \in NoteIds : SaveReject(u, id)
    \/ \E u \in Savers, id \in NoteIds : SaveFind(u, id)
    \/ \E r \in InFlight : SaveApply(r)
    \/ \E u \in Savers, id \in NoteIds : UnsaveMissing(u, id)
    \/ \E u \in Savers, id \in NoteIds : UnsaveFind(u, id)
    \/ \E r \in InFlight : UnsaveApply(r)

\* ---- accounts (routes/auth.js, routes/users.js) -------------------------
\* jwt.sign: the token string is a function of the payload and of the second
\* it is issued in; EMAIL_VERIFICATION_SECRET signs both kinds
generateVerificationToken(email, t) ==
    [type |-> "none", email |-> email, iat |-> t, exp |-> t + VerificationLife]

generatePasswordResetToken(email, t) ==
    [type |-> "password-reset", email |-> email, iat |-> t, exp |-> t + ResetLife]

\* jwt.sign({ id }, JWT_SECRET): the login token
generateToken(email, t) ==
    [type |-> "login", email |-> email, iat |-> t, exp |-> t + LoginLife]

\* the token strings a client may send: the ones of the emails received, or
\* a string that is no token
Tokens == inbox \cup {BadToken}

\* jwt.verify with EMAIL_VERIFICATION_SECRET: throws on a bad signature and
\* from the second of expiry on
verifyToken(token, t) == token # BadToken /\ token.type # "login" /\ t < token.exp

\* the pre-save hook and comparePassword
hash(password) == "bcrypt:" \o password

comparePassword(candidate, stored) == hash(candidate) = stored

\* User.findOne({ email })
findOne(email) == account.exists /\ email = AccountEmail

\* User.create of the register route
created(password) ==
    [exists |-> TRUE, isActive |-> TRUE, isEmailVerified |-> FALSE,
     emailVerificationToken |-> NoToken, passwordResetToken |-> NoToken,
     passwordResetExpires |-> 0, password |-> hash(password)]

AuthRequest(kind, pc, email, token, password) ==
    [Request(kind, pc, email, "none", BlankDoc) EXCEPT !.token = token,
                                                         !.password = password]

Issued(op, code, msg, token) == [Response(op, code, msg) EXCEPT !.body = [token |-> token]]

\* ---- POST /api/auth/register --------------------------------------------
\* the email has a user: 400
SignupExists(email, password) ==
    /\ findOne(email)
    /\ out' = Response("signup", 400, MsgUserExists)
    /\ UNCHANGED <<event, users, now, reqs, noteVars, authVars>>

\* User.findOne finds nothing
SignupFind(email, password) ==
    /\ CanStart
    /\ ~findOne(email)
    /\ reqs' = Add(AuthRequest("signup", "create", email, NoToken, password))
    /\ out' = NoResponse
    /\ UNCHANGED <<event, users, now, noteVars, authVars>>

\* User.create; the unique index on email rejects a second document: 500
SignupCreate(r) ==
    /\ r.kind = "signup" /\ r.pc = "create"
    /\ \/ /\ ~account.exists
          /\ account' = created(r.password)
          /\ reqs' = Move(r, [r EXCEPT !.pc = "token"])
          /\ out' = NoResponse
       \/ /\ account.exists
          /\ reqs' = Del(r)
          /\ out' = Response("signup", 500, MsgSignupError)
          /\ UNCHANGED account
    /\ UNCHANGED <<event, users, now, noteVars, inbox>>

\* the save() of the verification token, the email (sent or not) and the
\* 201 response
SignupToken(r) ==
    /\ r.kind = "signup" /\ r.pc = "token"
    /\ account' = [account EXCEPT
                      !.emailVerificationToken = generateVerificationToken(r.user, now)]
    /\ reqs' = Del(r)
    /\ out' = Response("signup", 201, MsgSignedUp)
    /\ \/ inbox' = inbox \cup {generateVerificationToken(r.user, now)}
       \/ UNCHANGED inbox
    /\ UNCHANGED <<event, users, now, noteVars>>

\* ---- POST /api/auth/verify-email ----------------------------------------
\* User.findOne({ _id, email, emailVerificationToken: token })
findByVerificationToken(token) ==
    account.exists /\ token.email = AccountEmail
        /\ account.emailVerificationToken = token

\* the token does not verify, no user holds it, or the user is verified: 400
VerifyReject(token) ==
    /\ \/ /\ ~verifyToken(token, now)
          /\ out' = Response("verify", 400, MsgBadVerification)
       \/ /\ verifyToken(token, now)
          /\ ~findByVerificationToken(token)
          /\ out' = Response("verify", 400, MsgVerifyNotFound)
       \/ /\ verifyToken(token, now)
          /\ findByVerificationToken(token)
          /\ account.isEmailVerified
          /\ out' = Response("verify", 400, MsgAlreadyVerified)
    /\ UNCHANGED <<event, users, now, reqs, noteVars, authVars>>

\* the user holding the token is loaded and is not verified
VerifyFind(token) ==
    /\ CanStart
    /\ verifyToken(token, now)
    /\ findByVerificationToken(token)
    /\ ~account.isEmailVerified
    /\ reqs' = Add(AuthRequest("verify", "save", token.email, token, "none"))
    /\ out' = NoResponse
    /\ UNCHANGED <<event, users, now, noteVars, authVars>>

\* save() of isEmailVerified and of the cleared token, then the 200 response
\* with a login token
VerifySave(r) ==
    /\ r.kind = "verify" /\ r.pc = "save"
    /\ account' = [account EXCEPT !.isEmailVerified = TRUE,
                                  !.emailVerificationToken = NoToken]
    /\ reqs' = Del(r)
    /\ out' = Issued("verify", 200, MsgVerified, generateToken(r.user, now))
    /\ UNCHANGED <<event, users, now, noteVars, inbox>>

\* ---- POST /api/auth/resend-verification ---------------------------------
\* no user: 404; verified user: 400
ResendReject(email) ==
    /\ \/ /\ ~findOne(email)
          /\ out' = Response("resend", 404, MsgNoSuchEmail)
       \/ /\ findOne(email)
          /\ account.isEmailVerified
          /\ out' = Response("resend", 400, MsgAlreadyVerified)
    /\ UNCHANGED <<event, users, now, reqs, noteVars, authVars>>

ResendFind(email) ==
    /\ CanStart
    /\ findOne(email)
    /\ ~account.isEmailVerified
    /\ reqs' = Add(AuthRequest("resend", "save", email, NoToken, "none"))
    /\ out' = NoResponse
    /\ UNCHANGED <<event, users, now, noteVars, authVars>>

\* save() of a new token, then the email: 200, or 500 when it is not sent
ResendSave(r) ==
    /\ r.kind = "resend" /\ r.pc = "save"
    /\ account' = [account EXCEPT
                      !.emailVerificationToken = generateVerificationToken(r.user, now)]
    /\ reqs' = Del(r)
    /\ \/ /\ out' = Response("resend", 200, MsgVerificationSent)
          /\ inbox' = inbox \cup {generateVerificationToken(r.user, now)}
       \/ /\ out' = Response("resend", 500, MsgVerificationNotSent)
          /\ UNCHANGED inbox
    /\ UNCHANGED <<event, users, now, noteVars>>

\* ---- POST /api/auth/forgot-password -------------------------------------
\* no user, or a deactivated one: 200 with the neutral message
ForgotSilent(email) ==
    /\ ~findOne(email) \/ ~account.isActive
    /\ out' = Response("forgot", 200, MsgIfAccountExists)
    /\ UNCHANGED <<event, users, now, reqs, noteVars, authVars>>

ForgotFind(email) ==
    /\ CanStart
    /\ findOne(email)
    /\ account.isActive
    /\ reqs' = Add(AuthRequest("forgot", "save", email, NoToken, "none"))
    /\ out' = NoResponse
    /\ UNCHANGED <<event, users, now, noteVars, authVars>>

\* save() of the reset token and of its expiry
ForgotSave(r) ==
    /\ r.kind = "forgot" /\ r.pc = "save"
    /\ account' = [account EXCEPT
                      !.passwordResetToken = generatePasswordResetToken(r.user, now),
                      !.passwordResetExpires = now + ResetLife]
    /\ reqs' = Move(r, [r EXCEPT !.pc = "email",
                                  !.token = generatePasswordResetToken(r.user, now)])
    /\ out' = NoResponse
    /\ UNCHANGED <<event, users, now, noteVars, inbox>>

\* the email is sent: 200; it is not: the token and the expiry are cleared
\* and saved, 500
ForgotEmail(r) ==
    /\ r.kind = "forgot" /\ r.pc = "email"
    /\ reqs' = Del(r)
    /\ \/ /\ out' = Response("forgot", 200, MsgResetSent)
          /\ inbox' = inbox \cup {r.token}
          /\ UNCHANGED account
       \/ /\ out' = Response("forgot", 500, MsgResetNotSent)
          /\ account' = [account EXCEPT !.passwordResetToken = NoToken,
                                        !.passwordResetExpires = 0]
          /\ UNCHANGED inbox
    /\ UNCHANGED <<event, users, now, noteVars>>

\* ---- POST /api/auth/reset-password --------------------------------------
\* User.findOne({ _id, email, passwordResetToken: token,
\*                passwordResetExpires: { $gt: Date.now() } })
findByResetToken(token, t) ==
    account.exists /\ token.email = AccountEmail
        /\ account.passwordResetToken = token
        /\ account.passwordResetExpires > t

\* the token as the handler accepts it: verified, of type password-reset
isResetToken(token, t) == verifyToken(token, t) /\ token.type = "password-reset"

\* the token is refused or finds no user: 400
ResetReject(token, password) ==
    /\ ~isResetToken(token, now) \/ ~findByResetToken(token, now)
    /\ out' = Response("reset", 400, MsgBadReset)
    /\ UNCHANGED <<event, users, now, reqs, noteVars, authVars>>

ResetFind(token, password) ==
    /\ CanStart
    /\ isResetToken(token, now)
    /\ findByResetToken(token, now)
    /\ reqs' = Add(AuthRequest("reset", "save", token.email, token, password))
    /\ out' = NoResponse
    /\ UNCHANGED <<event, users, now, noteVars, authVars>>

\* save() of the new password and of the cleared token and expiry: 200
ResetSave(r) ==
    /\ r.kind = "reset" /\ r.pc = "save"
    /\ account' = [account EXCEPT !.password = hash(r.password),
                                  !.passwordResetToken = NoToken,
                                  !.passwordResetExpires = 0]
    /\ reqs' = Del(r)
    /\ out' = Response("reset", 200, MsgResetDone)
    /\ UNCHANGED <<event, users, now, noteVars, inbox>>

\* ---- POST /api/auth/login -----------------------------------------------
\* no user, a deactivated one, or an unverified one: 401
LoginReject(email, password) ==
    /\ \/ /\ ~findOne(email)
          /\ out' = Response("login", 401, MsgBadCredentials)
       \/ /\ findOne(email)
          /\ ~account.isActive
          /\ out' = Response("login", 401, MsgDeactivated)
       \/ /\ findOne(email)
          /\ account.isActive
          /\ ~account.isEmailVerified
          /\ out' = Response("login", 401, MsgNotVerified)
    /\ UNCHANGED <<event, users, now, reqs, noteVars, authVars>>

\* the user is loaded with its password, active and verified
LoginFind(email, password) ==
    /\ CanStart
    /\ findOne(email)
    /\ account.isActive
    /\ account.isEmailVerified
    /\ reqs' = Add([AuthRequest("login", "compare", email, NoToken, password)
                        EXCEPT !.key = account.password])
    /\ out' = NoResponse
    /\ UNCHANGED <<event, users, now, noteVars, authVars>>

\* comparePassword against the loaded hash: 401, or the login token, the
\* save() of lastLogin and 200
LoginIssue(r) ==
    /\ r.kind = "login" /\ r.pc = "compare"
    /\ reqs' = Del(r)
    /\ \/ /\ ~comparePassword(r.password, r.key)
          /\ out' = Response("login", 401, MsgBadCredentials)
       \/ /\ comparePassword(r.password, r.key)
          /\ out' = Issued("login", 200, MsgLoggedIn, generateToken(r.user, now))
    /\ UNCHANGED <<event, users, now, noteVars, authVars>>

\* ---- PUT /api/users/:id/status (caller has the admin role) --------------
\* User.findByIdAndUpdate(id, { isActive })
SetStatus(isActive) ==
    /\ \/ /\ account.exists
          /\ account' = [account EXCEPT !.isActive = isActive]
          /\ out' = Response("active", 200, MsgStatusSet(isActive))
       \/ /\ ~account.exists
          /\ out' = Response("active", 404, MsgUserNotFound)
          /\ UNCHANGED account
    /\ UNCHANGED <<event, users, now, reqs, noteVars, inbox>>

\* the routes of the account, by concern
Signup ==
    \/ \E e \in Emails, p \in Passwords : SignupExists(e, p)
    \/ \E p \in Passwords : SignupFind(AccountEmail, p)
    \/ \E r \in InFlight : SignupCreate(r)
    \/ \E r \in InFlight : SignupToken(r)

Verification ==
    \/ \E t \in Tokens : VerifyReject(t)
    \/ \E t \in Tokens : VerifyFind(t)
    \/ \E r \in InFlight : VerifySave(r)
    \/ \E e \in Emails : ResendReject(e)
    \/ \E e \in Emails : ResendFind(e)
    \/ \E r \in InFlight : ResendSave(r)

PasswordReset ==
    \/ \E e \in Emails : ForgotSilent(e)
    \/ \E e \in Emails : ForgotFind(e)
    \/ \E r \in InFlight : ForgotSave(r)
    \/ \E r \in InFlight : ForgotEmail(r)
    \/ \E t \in Tokens, p \in NewPasswords : ResetReject(t, p)
    \/ \E t \in Tokens, p \in NewPasswords : ResetFind(t, p)
    \/ \E r \in InFlight : ResetSave(r)

Login ==
    \/ \E e \in Emails, p \in Passwords \cup NewPasswords : LoginReject(e, p)
    \/ \E e \in Emails, p \in Passwords \cup NewPasswords : LoginFind(e, p)
    \/ \E r \in InFlight : LoginIssue(r)

EditBodies ==
    {<<"registration.deadline", d, "none">> : d \in Deadlines}
        \cup {<<"registration.currentParticipants", c, "none">> : c \in Counts}

MetaBodies == {<<"participants.$[].teamName", 0, t>> : t \in NewTeamNames}

\* registration requests of the given users
RegisterBy(us) ==
    \/ \E u \in us, t \in TeamNames : RegisterFind(u, t)
    \/ \E r \in InFlight : RegisterReject(r)
    \/ \E r \in InFlight : RegisterSave(r)
    \/ \E r \in InFlight : RegisterSaveFail(r)
    \/ \E r \in InFlight : RegisterMirror(r)

Register == RegisterBy(Registrants)

Unregister ==
    \/ \E u \in Registrants : UnregisterFind(u)
    \/ \E r \in InFlight : UnregisterReject(r)
    \/ \E r \in InFlight : UnregisterSave(r)
    \/ \E r \in InFlight : UnregisterSaveFail(r)
    \/ \E r \in InFlight : UnregisterMirror(r)

AdminRegister ==
    \/ \E raw \in RawUserIds : AdminFind(raw)
    \/ \E r \in InFlight : AdminReject(r)
    \/ \E r \in InFlight : AdminSave(r)
    \/ \E r \in InFlight : AdminSaveFail(r)
    \/ \E r \in InFlight : AdminMirror(r)

StatusUpdate ==
    \/ \E c \in StatusCallers, p \in ParticipantIds, st \in StatusInputs :
            StatusInvalid(c, p, st)
    \/ \E c \in StatusCallers, p \in ParticipantIds, st \in StatusInputs :
            StatusFind(c, p, st)
    \/ \E r \in InFlight : StatusReject(r)
    \/ \E r \in InFlight : StatusSave(r)
    \/ \E r \in InFlight : StatusSaveFail(r)
    \/ \E r \in InFlight : StatusMirror(r)

\* edit requests with a body of the given set
EditWith(bodies) ==
    \/ \E c \in Callers, b \in bodies : EditFind(c, b[1], b[2], b[3])
    \/ \E r \in InFlight : EditReject(r)
    \/ \E r \in InFlight : EditApply(r)

Edit == EditWith(EditBodies)

Get ==
    \/ \E v \in Viewers : GetFind(v)
    \/ \E r \in InFlight : GetRespond(r)

\* ---- specifications -----------------------------------------------------
\* registration, unregistration and admin registration, interleaved
Next == Tick \/ Register \/ Unregister \/ AdminRegister

Spec == Init /\ [][Next]_vars

\* ... with the organizer's edit instead of the admin's registration
NextEdit == Tick \/ Register \/ Unregister \/ Edit

SpecEdit == Init /\ [][NextEdit]_vars

\* ... with reads of the event
NextView == Tick \/ Register \/ Unregister \/ Get

SpecView == Init /\ [][NextView]_vars

\* registration with organizer edits of the participants' team names
NextMeta == Register \/ EditWith(MetaBodies)

SpecMeta == Init /\ [][NextMeta]_vars

\* registrations of one user with requests whose id finds nothing
NextLookup == Tick \/ RegisterBy({"u1"}) \/ Lookup

SpecLookup == Init /\ [][NextLookup]_vars

\* registration with the listing and the user lookup
NextList == Register \/ Listing

SpecList == Init /\ [][NextList]_vars

\* rate requests of two users, interleaved
NextRate == RateBy({"u1", "u2"}, TRUE)

SpecRate == Init /\ [][NextRate]_vars

\* rate requests, each run in isolation
NextRateAlone == RateBy(Raters, BagCardinality(reqs) = 0)

SpecRateAlone == Init /\ [][NextRateAlone]_vars

\* the notes routes of the author and of one other user
NextNotes == NoteReads \/ NoteWrites \/ RateBy({"u2"}, TRUE)

SpecNotes == Init /\ [][NextNotes]_vars

\* sign-up, email verification, login and the admin's activation switch
NextVerify == Tick \/ Signup \/ Verification \/ Login \/ (\E b \in BOOLEAN : SetStatus(b))

SpecVerify == Init /\ [][NextVerify]_vars

\* sign-up and the password reset
NextReset == Tick \/ Signup \/ PasswordReset

SpecReset == Init /\ [][NextReset]_vars

\* registrations of one user with the organizer's status updates
NextStatus == RegisterBy({"u1"}) \/ StatusUpdate

SpecStatus == Init /\ [][NextStatus]_vars

\* ---- properties ---------------------------------------------------------
\* the user has an entry in the document's participants list
hasEntry(doc, u) == \E i \in DOMAIN doc.participants : doc.participants[i].user = u

Idle == BagCardinality(reqs) = 0

\* C1: in every reachable state registration.currentParticipants equals the
\* number of entries of the participants list.
C1_CounterEqualsRoster ==
    event.registration.currentParticipants = Len(event.participants)

\* C2: in every reachable state the participants list holds at most one
\* entry per user id.
C2_OneEntryPerUser ==
    \A i, j \in DOMAIN event.participants :
        event.participants[i].user = event.participants[j].user => i = j

\* C3: whenever no request is in flight, a user has a registeredEvents entry
\* for the event if and only if the event has a participant entry for the user.
C3_MirrorInSync ==
    Idle => \A u \in Registrants : hasRegistered(users[u], EventId) <=> hasEntry(event, u)

\* C4: the GET /:id response for a viewer who is neither organizer nor admin
\* has no participants key on the event object, and its participantCount is
\* the number of participants of the event at read time.
C4_RosterHidden ==
    (out.op = "get" /\ out.code = 200 /\ out.viewer \notin {Organizer, Admin})
        => /\ "participants" \notin DOMAIN out.body
           /\ "participantCount" \in DOMAIN out.body
           /\ out.body.participantCount = out.readLen

\* a roster of two entries was hidden from a plain viewer
C4_Witness ==
    /\ out.op = "get" /\ out.code = 200 /\ out.viewer \in {"anon", "u1"}
    /\ out.readLen = 2

\* C5 as stated: once a user is registered, canRegister reports not-allowed
\* with reason "Already registered" for as long as the entry exists.
C5_AlwaysAlreadyRegistered ==
    \A u \in Registrants :
        hasEntry(event, u) =>
            canUserRegister(event, u, now) = [canRegister |-> FALSE, reason |-> MsgAlready]

Blocked(doc, u, t) ==
    canUserRegister(doc, u, t) =
        [canRegister |-> FALSE,
         reason |-> IF t > doc.registration.deadline THEN MsgDeadline ELSE MsgAlready]

\* C5 amended: once a user is registered and for as long as the entry exists,
\* canRegister reports not-allowed; the reason is "Already registered" while
\* the deadline has not passed and "Registration deadline has passed" after
\* it.  Checked on the stored event and on every document a register request
\* has loaded.
C5_RegisteredIsBlocked ==
    /\ \A u \in Registrants : hasEntry(event, u) => Blocked(event, u, now)
    /\ \A r \in InFlight :
          (r.kind = "register" /\ r.pc = "check" /\ hasEntry(r.doc, r.user))
              => Blocked(r.doc, r.user, now)

\* a self-registered user is asked again after the deadline
C5_Witness ==
    /\ now > event.registration.deadline
    /\ \E r \in InFlight :
          /\ r.kind = "register" /\ r.pc = "check"
          /\ \E i \in DOMAIN r.doc.participants :
                /\ r.doc.participants[i].user = r.user
                /\ r.doc.participants[i].teamName \in TeamNames

UnregisterStep(r) == UnregisterReject(r) \/ UnregisterSave(r) \/ UnregisterSaveFail(r)

\* C6: a successful unregister leaves the event in a state where canRegister
\* no longer reports "Already registered" for the user, with
\* currentParticipants exactly one less than before and not below 0.
C6_UnregisterDecrements ==
    [][\A r \in InFlight :
          UnregisterSave(r) =>
              /\ canUserRegister(event', r.user, now').reason # MsgAlready
              /\ event'.registration.currentParticipants
                    = event.registration.currentParticipants - 1
              /\ event'.registration.currentParticipants >= 0]_vars

\* C7: unregister by a user without an entry in the loaded participants is
\* answered 400 "not registered" and changes neither the event nor any
\* user's registeredEvents.
C7_NotRegisteredRejected ==
    [][\A r \in InFlight :
          (r.kind = "unregister" /\ r.pc = "check" /\ ~hasEntry(r.doc, r.user)
              /\ UnregisterStep(r))
          => /\ out'.op = "unregister" /\ out'.code = 400
             /\ out'.msg = MsgNotRegistered
             /\ UNCHANGED <<event, users>>]_vars

\* the refusal was sent while somebody else is registered
C7_Witness ==
    /\ out.op = "unregister" /\ out.code = 400 /\ out.msg = MsgNotRegistered
    /\ event.participants # <<>>

\* C8: after the deadline canRegister reports not-allowed with the deadline
\* reason, whatever maxParticipants is and whether or not the user already
\* has an entry; on the stored event and on every loaded document.
C8_DeadlineFirst ==
    /\ \A u \in Registrants :
          now > event.registration.deadline
              => canUserRegister(event, u, now)
                    = [canRegister |-> FALSE, reason |-> MsgDeadline]
    /\ \A r \in InFlight :
          (r.kind = "register" /\ r.pc = "check" /\ now > r.doc.registration.deadline)
              => canUserRegister(r.doc, r.user, now)
                    = [canRegister |-> FALSE, reason |-> MsgDeadline]

\* after the deadline, a registered user asks again on a full event
C8_Witness ==
    /\ now > event.registration.deadline
    /\ event.registration.currentParticipants >= event.registration.maxParticipants
    /\ \E r \in InFlight :
          r.kind = "register" /\ r.pc = "check" /\ hasEntry(r.doc, r.user)

\* C9 as stated: registration is allowed only strictly before the deadline.
C9_StrictlyBefore ==
    \A u \in Registrants :
        canUserRegister(event, u, now).canRegister => now < event.registration.deadline

\* C9 amended: registration is allowed only while the current time is not
\* after the deadline; at a time equal to the deadline a user without an
\* entry is allowed and nobody is given the deadline reason.
C9_NotAfterDeadline ==
    \A u \in Registrants :
        LET c == canUserRegister(event, u, now)
        IN /\ c.canRegister => now <= event.registration.deadline
           /\ now = event.registration.deadline
                => /\ c.reason # MsgDeadline
                   /\ ~hasEntry(event, u) => c.canRegister
           /\ registrationStatus(event, now) = "closed"
                <=> now > event.registration.deadline

\* a register request is decided at the deadline instant
C9_Witness ==
    /\ now = event.registration.deadline
    /\ \E r \in InFlight :
          r.kind = "register" /\ r.pc = "check" /\ ~hasEntry(r.doc, r.user)

AdminStep(r) == AdminReject(r) \/ AdminSave(r) \/ AdminSaveFail(r)

\* C10: admin-register of a user who already has an entry in the loaded
\* participants is answered 400 "already registered" and changes neither
\* the event nor any user's registeredEvents.
C10_AdminDuplicateRejected ==
    [][\A r \in InFlight :
          (r.kind = "admin-register" /\ r.pc = "check"
              /\ hasEntry(r.doc, castObjectId(r.uid)) /\ AdminStep(r))
          => /\ out'.op = "admin-register" /\ out'.code = 400
             /\ out'.msg = MsgAdminAlready
             /\ UNCHANGED <<event, users>>]_vars

\* the stored status of every participant and every mirrored status
storedStatuses(doc) == [i \in DOMAIN doc.participants |-> doc.participants[i].status]

\* C11: a status-update request whose status is outside {registered,
\* confirmed, attended, cancelled} is answered 400 at once: it loads nothing
\* (no request goes in flight) and leaves every participant's stored status
\* and every user's registeredEvents unchanged.
C11_InvalidStatusRejected ==
    [][\A c \in StatusCallers, p \in ParticipantIds, st \in StatusInputs :
          (st \notin Statuses /\ (StatusInvalid(c, p, st) \/ StatusFind(c, p, st)))
          => /\ out'.op = "status" /\ out'.code = 400
             /\ out'.msg = MsgInvalidStatus
             /\ UNCHANGED <<event, users, reqs>>]_vars

\* the refusal was sent while a participant exists whose status it named
C11_Witness ==
    /\ out.op = "status" /\ out.code = 400 /\ out.msg = MsgInvalidStatus
    /\ event.participants # <<>>
    /\ \A i \in DOMAIN event.participants : event.participants[i].status \in Statuses

StatusStep(r) == StatusReject(r) \/ StatusSave(r) \/ StatusSaveFail(r)

\* C15: a status-update request from a caller who is not the event's
\* organizer is answered 403 and changes neither the event nor any user's
\* registeredEvents; a request that does change a participant's status comes
\* from the organizer.
C15_OnlyOrganizerSetsStatus ==
    [][\A r \in InFlight :
          (r.kind = "status" /\ r.pc = "check" /\ StatusStep(r))
          => /\ r.user # Organizer
                => /\ out'.op = "status" /\ out'.code = 403
                   /\ out'.msg = MsgStatusDenied
                   /\ UNCHANGED <<event, users>>
             /\ storedStatuses(event') # storedStatuses(event) => r.user = Organizer]_vars

\* an admin and a plain user were refused while a participant exists
C15_Witness ==
    /\ out.op = "status" /\ out.code = 403
    /\ event.participants # <<>>
    /\ \A i \in DOMAIN event.participants : event.participants[i].status = "registered"

\* C20: when a status update is answered 200, the registeredEvents list of
\* the participant's user has an entry for the event with the new status.
C20_StatusMirrored ==
    [][\A r \in InFlight :
          (r.kind = "status" /\ r.pc = "mirror" /\ StatusMirror(r) /\ out'.code = 200)
          => \E i \in DOMAIN users'[r.uid] :
                /\ users'[r.uid][i].event = EventId
                /\ users'[r.uid][i].status = r.status]_vars

\* C14: registration is never refused for capacity: before or at the
\* deadline canRegister allows a user without an entry whatever
\* maxParticipants is, also one that currentParticipants has reached or
\* exceeded; on the stored event and on every loaded document.
C14_NoCapacityRule ==
    /\ \A u \in Registrants, m \in Capacities :
          (~hasEntry(event, u) /\ now <= event.registration.deadline)
              => canUserRegister([event EXCEPT !.registration.maxParticipants = m],
                                 u, now).canRegister
    /\ \A r \in InFlight :
          (r.kind = "register" /\ r.pc = "check" /\ ~hasEntry(r.doc, r.user)
              /\ now <= r.doc.registration.deadline)
              => canUserRegister(r.doc, r.user, now).canRegister

\* two users are registered for an event whose maxParticipants is 1
C14_Witness ==
    /\ Len(event.participants) > event.registration.maxParticipants
    /\ event.registration.currentParticipants > event.registration.maxParticipants
    /\ \A u \in Registrants : hasEntry(event, u)

\* C17: when a register request that canRegister allows ends without its
\* mirror step, it is answered 500 and the step changes neither the stored
\* event (participants, counter) nor any user's registeredEvents.
C17_FailedSaveWritesNothing ==
    [][\A r \in InFlight :
          (r.kind = "register" /\ r.pc = "check"
              /\ canUserRegister(r.doc, r.user, now).canRegister
              /\ RegisterSaveFail(r))
          => /\ out'.op = "register" /\ out'.code = 500
             /\ UNCHANGED <<event, users>>
             /\ ~\E q \in BagToSet(reqs') : q.kind = "register" /\ q.pc = "mirror"
                                              /\ q \notin InFlight]_vars

\* the only request so far failed at the event's save
C17_Witness ==
    /\ out.op = "register" /\ out.code = 500
    /\ Idle
    /\ event.v = 0 /\ event.participants = <<>>
    /\ \A u \in Registrants : users[u] = <<>>

\* C19: admin-register of a user without an entry is never refused, the
\* deadline being passed or not (it is saved, or fails with 500); its mirror
\* step appends a registeredEvents entry with status confirmed, the mirror
\* step of a self-registration one with status registered.
C19_AdminIgnoresDeadline ==
    [][\A r \in InFlight :
          /\ (r.kind = "admin-register" /\ r.pc = "check"
                /\ ~hasEntry(r.doc, castObjectId(r.uid)) /\ AdminStep(r))
             => /\ out'.code # 400
                /\ (event.v < MaxVersion => ENABLED AdminSave(r))
          /\ (AdminMirror(r) /\ out'.code = 200)
             => users'[castObjectId(r.uid)]
                  = Append(users[castObjectId(r.uid)],
                           [event |-> EventId, status |-> "confirmed"])
          /\ (RegisterMirror(r) /\ out'.code = 200)
             => users'[r.user]
                  = Append(users[r.user], [event |-> EventId, status |-> "registered"])]_vars

\* after the deadline an admin-register request for a user without an entry
\* is about to be decided
C19_Witness ==
    /\ now > event.registration.deadline
    /\ event.v < MaxVersion
    /\ \E r \in InFlight :
          /\ r.kind = "admin-register" /\ r.pc = "check"
          /\ ~hasEntry(r.doc, castObjectId(r.uid))
          /\ now > r.doc.registration.deadline

\* C16: the team metadata of a participant entry never changes while the
\* entry exists: an entry of the stored event that is still there after a
\* step (same id) has the same user and team name.
C16_MetadataImmutable ==
    [][\A i \in DOMAIN event.participants, j \in DOMAIN event'.participants :
          event.participants[i].id = event'.participants[j].id
              => /\ event'.participants[j].user = event.participants[i].user
                 /\ event'.participants[j].teamName = event.participants[i].teamName]_vars

\* C18: for get event, register, unregister, admin-register, set participant
\* status and list participants, a request with a malformed id is answered
\* as the same request with a well-formed id that matches no record: 404.
C18_MalformedIsNotFound ==
    [][/\ \A v \in Viewers :
            GetMissing(v, MalformedId) => GetMissing(v, AbsentId) /\ out'.code = 404
       /\ \A u \in Registrants :
            RegisterMissing(u, MalformedId)
                => RegisterMissing(u, AbsentId) /\ out'.code = 404
       /\ \A u \in Registrants :
            UnregisterMissing(u, MalformedId)
                => UnregisterMissing(u, AbsentId) /\ out'.code = 404
       /\ \A raw \in RawUserIds :
            AdminMissing(raw, MalformedId)
                => AdminMissing(raw, AbsentId) /\ out'.code = 404
       /\ AdminUserMissing(MalformedId) => AdminUserMissing(AbsentId) /\ out'.code = 404
       /\ \A c \in StatusCallers, st \in StatusInputs :
            StatusMissing(c, MalformedId, st)
                => StatusMissing(c, AbsentId, st) /\ out'.code = 404
       /\ \A c \in Callers :
            ListMissing(c, MalformedId) => ListMissing(c, AbsentId) /\ out'.code = 404]_vars

hasRated(rows, u) == \E i \in DOMAIN rows : rows[i].user = u

\* C12: after every step the note has at most one stored rating per user,
\* and the upsert of a user who already rated keeps the number of stored
\* ratings, overwrites that user's value and leaves the other rows alone.
C12_OneRatingPerUser ==
    [][/\ \A i, j \in DOMAIN noteRatings' :
            noteRatings'[i].user = noteRatings'[j].user => i = j
       /\ \A r \in InFlight :
            (r.kind = "rate" /\ r.pc = "upsert" /\ hasRated(noteRatings, r.user)
                /\ RateUpsert(r) /\ out'.code # 500)
            => /\ Len(noteRatings') = Len(noteRatings)
               /\ \A i \in DOMAIN noteRatings :
                     /\ noteRatings'[i].user = noteRatings[i].user
                     /\ noteRatings'[i].rating =
                           IF noteRatings[i].user = r.user THEN r.val
                           ELSE noteRatings[i].rating]_vars

\* the single rater's value was overwritten after the aggregate was written
C12_Witness ==
    /\ Len(noteRatings) = 1
    /\ note.ratingCount = 1
    /\ note.rating # 10 * noteRatings[1].rating

\* C13: when a rate request run in isolation has been answered 200, the
\* note's rating is the mean of its current ratings rounded to one decimal
\* and its ratingCount is the number of its current ratings.
C13_AggregateIsCurrent ==
    (BagCardinality(reqs) = 0 /\ out.op = "rate" /\ out.code = 200)
        => /\ note.rating = roundTenths(sumRatings(ratingColumn(noteRatings)),
                                        Len(noteRatings))
           /\ note.ratingCount = Len(noteRatings)

\* C21: the write of a self-registration does not look at the stored list:
\* whenever a register request that passed the admission check on its loaded
\* document saves, the stored list grows by one entry for its user, also
\* when another request of the same user has inserted in between; so a state
\* with two entries for one user is reachable (the witness).
C21_SaveInsertsUnchecked ==
    [][\A r \in InFlight :
          (r.kind = "register" /\ r.pc = "check" /\ RegisterSave(r))
          => /\ canUserRegister(r.doc, r.user, now).canRegister
             /\ Len(event'.participants) = Len(event.participants) + 1
             /\ event'.participants[Len(event'.participants)].user = r.user]_vars

\* two self-registered entries of the same user
C21_Witness ==
    \E i, j \in DOMAIN event.participants :
        /\ i # j
        /\ event.participants[i].user = event.participants[j].user
        /\ event.participants[i].teamName \in TeamNames
        /\ event.participants[j].teamName \in TeamNames

\* C22: registration.currentParticipants is never negative, in the stored
\* event of any reachable state.
C22_CounterNotNegative ==
    event.registration.currentParticipants >= 0

\* C23: whenever no request is in flight, a participant entry of the event
\* and the registeredEvents entry for the event of the same user carry the
\* same status.
C23_StatusesAgree ==
    Idle => \A u \in Registrants :
                \A i \in DOMAIN event.participants, j \in DOMAIN users[u] :
                    (event.participants[i].user = u /\ users[u][j].event = EventId)
                        => event.participants[i].status = users[u][j].status

\* C24: the event listing and the user lookup answered to a caller who is
\* neither the organizer nor an admin expose no participant entry: no event
\* they return carries a participants list with an entry in it.
C24_ListingsHideRoster ==
    (out.op \in {"list", "user"} /\ out.code = 200 /\ out.viewer \notin {Organizer, Admin})
        => \A i \in DOMAIN out.body.events :
                \/ "participants" \notin DOMAIN out.body.events[i]
                \/ out.body.events[i].participants = <<>>

\* C25: when the last of a set of concurrent rate requests completes by
\* writing the aggregate it computed, the note's rating and rating_count are
\* the rounded mean and the count of the ratings then stored (the slower
\* request does not write an aggregate of a stale set of ratings).
C25_NoStaleAggregate ==
    [][\A r \in InFlight :
          (r.kind = "rate" /\ r.pc = "update" /\ RateUpdate(r)
              /\ BagCardinality(reqs) = 1 /\ ratingColumns(note') = aggregate(r.rows))
          => ratingColumns(note') = aggregate(ratingColumn(noteRatings'))]_vars

\* C26: the forgot-password response does not tell whether the email has an
\* account: every response to a well-formed email has the status and the
\* body of the response given when no account exists.
C26_ForgotIsSilent ==
    out.op = "forgot" => (out.code = 200 /\ out.msg = MsgIfAccountExists)

\* C27: a reset-password request sets the password only with the token that
\* is the user's stored token at that moment (not one already used, replaced
\* or cleared).
C27_ResetTokenIsCurrent ==
    [][\A r \in InFlight :
          (r.kind = "reset" /\ r.pc = "save" /\ ResetSave(r))
          => account.passwordResetToken = r.token]_vars

\* C28: a verify-email request succeeds only with the token that is the
\* user's stored token at that moment and on an account not yet verified
\* (a token verifies at most once).
C28_VerificationTokenOnce ==
    [][\A r \in InFlight :
          (r.kind = "verify" /\ r.pc = "save" /\ VerifySave(r))
          => (account.emailVerificationToken = r.token /\ ~account.isEmailVerified)]_vars

\* C29: a response that carries a login token (login, verify-email) is sent
\* only while the account is active and email-verified.
C29_TokenOnlyToActiveVerified ==
    (out.op \in {"login", "verify"} /\ out.code = 200)
        => (account.isActive /\ account.isEmailVerified)

\* C30: once the note is inactive its row is not changed any more, and no
\* notes operation answers with it: single fetch, download, save, unsave,
\* rate and update do not answer 200, and the lists do not contain it.
C30_DeletedIsGone ==
    [][~note.is_active
          => /\ note' = note
             /\ out'.op \in {"note", "download", "save", "unsave", "rate", "noteUpdate"}
                    => out'.code # 200
             /\ out'.op \in {"notes", "saved", "uploaded"}
                    => out'.body.notes = <<>>]_vars

====
